---- MODULE Spec2Model ----
(***************************************************************************)
(* kmon: a watcher of Kubernetes cron jobs.                                *)
(*                                                                         *)
(* The repository holds two programs.  src/main.go watches several cron    *)
(* jobs, one goroutine (pipeline) per -j flag under an errgroup; its       *)
(* monitor writes <pod>.logs and <pod>.json.  src/unnamed/part_000 watches *)
(* one cron job in the main goroutine; its monitor returns a podStatus and *)
(* main appends "<pod>=<phase>" to <cronjob>_pod_statuses.                 *)
(*                                                                         *)
(* The variable prog says which of the two programs runs.  The Kubernetes  *)
(* API and the file system are the environment: every call returns an      *)
(* error or a value drawn from a bounded set.                              *)
(***************************************************************************)
EXTENDS Integers, Sequences, FiniteSets

\* ------------------------------------------------------------- bounds
\* -j flags given to main.go (0..MaxJobs of them)
MaxJobs == 2
\* executions (jobs) a cron job can report, per cron job
MaxExec == 2
\* pods a pod listing can hold
MaxPods == 2
\* monitor calls the environment triggers in one run of the program
MaxMonitors == 3

\* ------------------------------------------------------------- values
CronNames == {"cj1", "cj2"}

Programs == {"main.go", "part_000"}

Phases == {"Pending", "Running", "Succeeded", "Failed", "Unknown"}

\* var activeJob string: the zero value
NoJob == <<>>

NoPod == <<>>

NoPhase == ""

NoErr == "nil"

NoRecord == [name |-> NoPod, phase |-> NoPhase]

\* no listing has held a Running pod
NoPick == [lowest |-> NoPod, siblings |-> {}]

\* the jobs a cron job spawns are named after it
ExecsOf(cron) == {<<cron, i>> : i \in 1..MaxExec}

\* the pods of a job are named after it
PodsOf(job) == {<<job[1], job[2], k>> : k \in 1..MaxPods}

Distinct(s) == \A i, j \in 1..Len(s) : i # j => s[i] # s[j]

\* cronJob.Status.Active, as the names of the object references
ActiveLists(cron) ==
  {s \in UNION {[1..n -> ExecsOf(cron)] : n \in 0..MaxExec} : Distinct(s)}

\* podList.Items
PodLists(job) ==
  {s \in UNION {[1..n -> [name : PodsOf(job), phase : Phases]] : n \in 0..MaxPods} :
     \A i, j \in 1..Len(s) : i # j => s[i].name # s[j].name}

VARIABLES
  prog,         \* which program runs
  jobNames,     \* the -j flags, in order
  proc,         \* "running", "crashed" (a panic) or "exited" (main returned)
  panicErr,     \* the error value of the panic that ended the process
  cancelled,    \* ctx.Done() is closed
  waitErr,      \* what grp.Wait() returned
  wpc,          \* per pipeline: where watch (the tracker loop) stands
  mpc,          \* per pipeline: where its monitor call stands ("idle": none)
  activeJob,    \* per pipeline: var activeJob
  lastPoll,     \* per pipeline: Status.Active of the latest fetch
  runningPod,   \* per pipeline: the pod the monitor call selected
  streamPod,    \* per pipeline: the pod whose log stream the call opened
  logPod,       \* per pipeline: the pod whose .logs file the call created
  jobName,      \* per pipeline: the jobName parameter of the monitor call
  final,        \* per pipeline: phase of the latest pods.Get
  res,          \* per pipeline: the podStatus monitor returned (part_000)
  budget,       \* monitor calls the environment may still trigger
  monActive,    \* history: monitor calls started and not yet returned
  monStarts,    \* history: per job, monitor calls started
  monOk,        \* history: per job, monitor calls that returned no error
  since,        \* history: what the polls since the latest handoff reported
  listed,       \* history: what the listings of the latest monitor call held
  picked,       \* history: the listing the monitor call picked its pod from
  polledPod,    \* history: the pod name the latest pods.Get was called with
  lap,          \* history: parity of the rounds of the loop the monitor call is in
  statusWrites, \* history: per job, status records written
  lastRecord,   \* history: the status record written in this iteration of watch
  doneSeen,     \* history: a loop took its <-ctx.Done() case
  lateCall,     \* history: an API call issued in an iteration begun after cancel
  unresolved    \* history: the monitor call was short of its result at the cancel

cfgVars == <<prog, jobNames>>

procVars == <<proc, panicErr, cancelled, waitErr>>

trackVars == <<wpc, activeJob, lastPoll, budget>>

monVars == <<mpc, jobName, runningPod, streamPod, logPod, final, res>>

histVars == <<monActive, monStarts, monOk, since, listed, picked, polledPod, lap, statusWrites, lastRecord>>

ctxVars == <<doneSeen, lateCall, unresolved>>

vars == <<cfgVars, procVars, trackVars, monVars, histVars, ctxVars>>

Pipelines == 1..Len(jobNames)

AllExecs == UNION {ExecsOf(c) : c \in CronNames}

Upd(f, p, v) == [f EXCEPT ![p] = v]

\* ------------------------------------------------------------- start
\* Cron job names are interchangeable, so a list of them is taken with its
\* names in the order of CronNames: the k-th new name of the list is the k-th
\* name.
FirstUseOrder(s) ==
  \A i \in 1..Len(s) :
    \/ s[i] = "cj1"
    \/ \E j \in 1..(i - 1) : s[j] = "cj1"

\* The -j flags: any number of them for main.go, the one -j of part_000.
JobNameLists(pr) ==
  IF pr = "main.go"
    THEN {s \in UNION {[1..n -> CronNames] : n \in 0..MaxJobs} : FirstUseOrder(s)}
    ELSE {<<"cj1">>}

Init ==
  /\ prog \in Programs
  /\ jobNames \in JobNameLists(prog)
  /\ proc = "running"
  /\ panicErr = NoErr
  /\ cancelled = FALSE
  /\ waitErr = "pending"
  /\ wpc = [p \in 1..Len(jobNames) |->
              IF prog = "part_000" THEN "OpenFile" ELSE "GetJobsLoop"]
  /\ mpc = [p \in 1..Len(jobNames) |-> "idle"]
  /\ activeJob = [p \in 1..Len(jobNames) |-> NoJob]
  /\ lastPoll = [p \in 1..Len(jobNames) |-> <<>>]
  /\ jobName = [p \in 1..Len(jobNames) |-> NoJob]
  /\ runningPod = [p \in 1..Len(jobNames) |-> NoPod]
  /\ streamPod = [p \in 1..Len(jobNames) |-> NoPod]
  /\ logPod = [p \in 1..Len(jobNames) |-> NoPod]
  /\ final = [p \in 1..Len(jobNames) |-> NoPhase]
  /\ res = [p \in 1..Len(jobNames) |-> NoRecord]
  /\ budget = MaxMonitors
  /\ monActive = [p \in 1..Len(jobNames) |-> 0]
  /\ monStarts = [p \in 1..Len(jobNames) |-> [e \in AllExecs |-> 0]]
  /\ monOk = [p \in 1..Len(jobNames) |-> [e \in AllExecs |-> 0]]
  /\ since = [p \in 1..Len(jobNames) |-> "fresh"]
  /\ listed = [p \in 1..Len(jobNames) |-> "unlisted"]
  /\ picked = [p \in 1..Len(jobNames) |-> NoPick]
  /\ polledPod = [p \in 1..Len(jobNames) |-> NoPod]
  /\ lap = [p \in 1..Len(jobNames) |-> 0]
  /\ statusWrites = [p \in 1..Len(jobNames) |-> [e \in AllExecs |-> 0]]
  /\ lastRecord = [p \in 1..Len(jobNames) |-> NoRecord]
  /\ doneSeen = [p \in 1..Len(jobNames) |-> FALSE]
  /\ lateCall = [p \in 1..Len(jobNames) |-> FALSE]
  /\ unresolved = [p \in 1..Len(jobNames) |-> FALSE]

\* ------------------------------------------------------------- environment
\* Whether a client-go call made with ctx fails: a call made after ctx is
\* cancelled fails with the context's error; any other call may fail too.
ApiErrs == IF cancelled THEN {TRUE} ELSE BOOLEAN

\* Whether a local file operation fails.
IoErrs == BOOLEAN

\* The environment reports an unseen job only while monitor calls remain.
MayReport(p, active) ==
  (Len(active) = 1 /\ active[1] # activeJob[p]) => budget > 0

\* ------------------------------------------------------------- tracker
\* panic(err): the process dies, whichever goroutine panicked.
Panic(p, e) ==
  /\ proc' = "crashed"
  /\ panicErr' = e
  /\ wpc' = Upd(wpc, p, "panicked")
  /\ UNCHANGED <<cancelled, waitErr>>

\* the bound off by one: two active jobs pass
NumActiveBad_OffByOne(numActive) == numActive > 2

\* if numActive != 1 (after numActive == 0 was handled)
NumActiveBad(numActive) == numActive # 1

\* the comparison inverted
IsTransition_Inverted(newActiveJob, seen) == newActiveJob = seen

\* the comparison dropped: every poll with one active job is a transition
IsTransition_Always(newActiveJob, seen) == TRUE

\* newActiveJob != activeJob
IsTransition(newActiveJob, seen) == newActiveJob # seen

\* go monitor(...): watch goes on to its sleep while the monitor runs
TrackerDuringMonitor_Async == "Sleep5s"

\* monitor(...) is an ordinary call: watch stands in it until it returns.
TrackerDuringMonitor == "InMonitor"

\* activeJob = newActiveJob; monitor(ctx, client, namespace, activeJob)
Handoff(p, newActiveJob) ==
  /\ activeJob' = Upd(activeJob, p, newActiveJob)
  /\ wpc' = Upd(wpc, p, TrackerDuringMonitor)
  /\ mpc' = Upd(mpc, p, "GetJob")
  /\ jobName' = Upd(jobName, p, activeJob'[p])
  /\ runningPod' = Upd(runningPod, p, NoPod)
  /\ streamPod' = Upd(streamPod, p, NoPod)
  /\ logPod' = Upd(logPod, p, NoPod)
  /\ final' = Upd(final, p, NoPhase)
  /\ res' = Upd(res, p, NoRecord)
  /\ listed' = Upd(listed, p, "unlisted")
  /\ picked' = Upd(picked, p, NoPick)
  /\ polledPod' = Upd(polledPod, p, NoPod)
  /\ UNCHANGED lap
  /\ since' = Upd(since, p, "fresh")
  /\ budget' = budget - 1
  /\ monActive' = Upd(monActive, p, monActive[p] + 1)
  /\ monStarts' = [monStarts EXCEPT ![p][activeJob'[p]] = @ + 1]
  /\ lastRecord' = Upd(lastRecord, p, NoRecord)
  /\ UNCHANGED <<procVars, monOk, statusWrites>>

\* History of the polls since the latest handoff: "fresh" (none yet), "same"
\* (all reported the last-seen job), "empty" (the latest reported no active
\* job), "back" (the last-seen job was reported again after an empty poll).
SinceEmpty(h) == "empty"

SinceSame(h) == IF h \in {"empty", "back"} THEN "back" ELSE "same"

\* time.Sleep(5 * time.Second) at the end of an iteration
ToSleep(p) ==
  /\ wpc' = Upd(wpc, p, "Sleep5s")
  /\ UNCHANGED <<procVars, budget, monVars, monActive, monStarts,
                 monOk, listed, picked, polledPod, lap, statusWrites, lastRecord>>

\* last-seen reset by a poll that reports no active job
AfterEmpty_Reset(seen) == NoJob

\* if numActive == 0 { sleep; continue GetJobsLoop }: activeJob is not assigned
AfterEmpty(seen) == seen

\* One iteration of GetJobsLoop, up to its sleep, its panic or its call of
\* monitor.
WatchPoll(p) ==
  /\ proc = "running"
  /\ wpc[p] = "GetJobsLoop"
  /\ lateCall' = Upd(lateCall, p, lateCall[p] \/ cancelled)
  /\ UNCHANGED <<cfgVars, doneSeen, unresolved>>
  /\ \E err \in ApiErrs :
       IF err
         THEN /\ Panic(p, "get cronjob")
              /\ UNCHANGED <<activeJob, lastPoll, budget, monVars, histVars>>
         ELSE \E active \in ActiveLists(jobNames[p]) :
                /\ MayReport(p, active)
                /\ lastPoll' = Upd(lastPoll, p, active)
                /\ LET numActive == Len(active) IN
                     IF numActive = 0
                       THEN /\ ToSleep(p)
                            /\ activeJob' = Upd(activeJob, p, AfterEmpty(activeJob[p]))
                            /\ since' = Upd(since, p, SinceEmpty(since[p]))
                     ELSE IF NumActiveBad(numActive)
                       THEN /\ Panic(p, "expected only 1 active cron job")
                            /\ UNCHANGED <<activeJob, budget, monVars, histVars>>
                     ELSE IF IsTransition(active[1], activeJob[p])
                       THEN Handoff(p, active[1])
                       ELSE /\ ToSleep(p)
                            /\ UNCHANGED activeJob
                            /\ since' = Upd(since, p, SinceSame(since[p]))

\* The sleep ends; the loop starts its next iteration.  What the monitor call
\* of the iteration before held in its local variables is gone.
WatchSleep(p) ==
  /\ proc = "running"
  /\ wpc[p] = "Sleep5s"
  /\ wpc' = Upd(wpc, p, "GetJobsLoop")
  /\ jobName' = Upd(jobName, p, NoJob)
  /\ runningPod' = Upd(runningPod, p, NoPod)
  /\ streamPod' = Upd(streamPod, p, NoPod)
  /\ logPod' = Upd(logPod, p, NoPod)
  /\ final' = Upd(final, p, NoPhase)
  /\ res' = Upd(res, p, NoRecord)
  /\ listed' = Upd(listed, p, "unlisted")
  /\ picked' = Upd(picked, p, NoPick)
  /\ polledPod' = Upd(polledPod, p, NoPod)
  /\ UNCHANGED lap
  /\ lastRecord' = Upd(lastRecord, p, NoRecord)
  /\ UNCHANGED <<cfgVars, procVars, activeJob, lastPoll, budget, mpc,
                 monActive, monStarts, monOk, since, statusWrites, ctxVars>>

\* ------------------------------------------------------------- monitor
\* the error logged and dropped: the caller goes on to its sleep
MonFail_Swallowed(p, e) ==
  /\ mpc' = Upd(mpc, p, "idle")
  /\ monActive' = Upd(monActive, p, monActive[p] - 1)
  /\ wpc' = Upd(wpc, p, "Sleep5s")
  /\ UNCHANGED procVars

\* return fmt.Errorf(...) from monitor, and the caller's panic(err)
MonFail(p, e) ==
  /\ mpc' = Upd(mpc, p, "idle")
  /\ monActive' = Upd(monActive, p, monActive[p] - 1)
  /\ Panic(p, e)

\* client.BatchV1().Jobs(namespace).Get and the label selector built from the
\* job's labels.  The selector is not modelled: a listing holds pods of the job.
MonGetJob(p) ==
  /\ proc = "running"
  /\ mpc[p] = "GetJob"
  /\ \E err \in ApiErrs :
       IF err
         THEN MonFail(p, "getting job")
         ELSE /\ mpc' = Upd(mpc, p, "ListPods")
              /\ UNCHANGED <<procVars, wpc, monActive>>
  /\ UNCHANGED <<cfgVars, monOk, since, activeJob, lastPoll, budget, jobName, runningPod,
                 streamPod, logPod, final, res, monStarts, listed, picked, polledPod, lap,
                 statusWrites, lastRecord, ctxVars>>

RECURSIVE getRunningFrom(_, _)
\* for _, pod := range podList.Items, from index i on
getRunningFrom(podList, i) ==
  IF i > Len(podList)
    THEN [pod |-> NoPod, ok |-> FALSE]
    ELSE IF podList[i].phase = "Running"
      THEN [pod |-> podList[i].name, ok |-> TRUE]
      ELSE getRunningFrom(podList, i + 1)

\* the phase test dropped: the first pod of the listing, whatever its phase
getRunning_AnyPhase(podList) ==
  IF Len(podList) = 0
    THEN [pod |-> NoPod, ok |-> FALSE]
    ELSE [pod |-> podList[1].name, ok |-> TRUE]

\* the range loop without its return: the last Running pod of the listing
getRunning_Last(podList) ==
  LET R == {i \in 1..Len(podList) : podList[i].phase = "Running"} IN
    IF R = {}
      THEN [pod |-> NoPod, ok |-> FALSE]
      ELSE [pod |-> podList[CHOOSE i \in R : \A j \in R : j <= i].name,
            ok |-> TRUE]

\* func getRunning(podList) (coreapi.Pod, bool)
getRunning(podList) == getRunningFrom(podList, 1)

RECURSIVE firstStarted(_, _)
\* part_000: for _, pod := range podList.Items { if !started && Running {...} }
firstStarted(podList, i) ==
  IF i > Len(podList)
    THEN [pod |-> NoPod, ok |-> FALSE]
    ELSE IF podList[i].phase = "Running"
      THEN [pod |-> podList[i].name, ok |-> TRUE]
      ELSE firstStarted(podList, i + 1)

\* the pod the monitor of the running program picks from a listing
SelectPod(podList) ==
  IF prog = "part_000" THEN firstStarted(podList, 1) ELSE getRunning(podList)

\* History of the listings of one monitor call: "unlisted" (none yet), "none"
\* (none held a Running pod), "first" (the first one held a Running pod),
\* "later" (one held a Running pod after one or more that held none).
Listed(h, podList) ==
  IF \E i \in 1..Len(podList) : podList[i].phase = "Running"
    THEN (IF h = "unlisted" THEN "first" ELSE "later")
    ELSE "none"

\* History of the listing a monitor call picks its pod from: the name of its
\* lowest-index Running pod and the names of its other pods; NoPick for a
\* listing without a Running pod.
Picked(podList) ==
  LET R == {i \in 1..Len(podList) : podList[i].phase = "Running"} IN
    IF R = {}
      THEN NoPick
      ELSE LET lo == CHOOSE i \in R : \A j \in R : i <= j IN
             [lowest |-> podList[lo].name,
              siblings |-> {podList[i].name : i \in 1..Len(podList) \ {lo}}]

\* the listing loop left when a listing holds no Running pod
AfterNoRunning_Break == "PodFinishing"

\* if !hasRunningPod { time.Sleep(50 * time.Millisecond); continue ListPods }
AfterNoRunning == "ListPods"

\* One iteration of the listing loop: the select on ctx.Done(), whose case is
\* empty (the loop goes round again), or the default case: list, pick a
\* Running pod, else sleep 50ms and go round again.
MonListPods(p) ==
  /\ proc = "running"
  /\ mpc[p] = "ListPods"
  /\ IF cancelled
       THEN /\ doneSeen' = Upd(doneSeen, p, TRUE)
            /\ UNCHANGED <<procVars, wpc, mpc, monActive, runningPod, listed, picked, polledPod, lap>>
       ELSE /\ UNCHANGED doneSeen
            /\ \E err \in ApiErrs :
                 IF err
                   THEN /\ MonFail(p, "listing pods")
                        /\ UNCHANGED <<runningPod, listed, picked, polledPod, lap>>
                   ELSE \E podList \in PodLists(jobName[p]) :
                          LET sel == SelectPod(podList) IN
                            /\ listed' = Upd(listed, p, Listed(listed[p], podList))
                            /\ picked' = Upd(picked, p, Picked(podList))
                            /\ IF sel.ok
                                 THEN /\ runningPod' = Upd(runningPod, p, sel.pod)
                                      /\ mpc' = Upd(mpc, p, "GetLogs")
                                      /\ lap' = Upd(lap, p, 0)
                                 ELSE /\ UNCHANGED runningPod
                                      /\ mpc' = Upd(mpc, p, AfterNoRunning)
                                      /\ lap' = Upd(lap, p, 1 - lap[p])
                            /\ UNCHANGED <<procVars, wpc, monActive, polledPod>>
  /\ UNCHANGED <<cfgVars, monOk, since, activeJob, lastPoll, budget, jobName, streamPod,
                 logPod, final, res, monStarts, statusWrites, lastRecord,
                 lateCall, unresolved>>

\* pods.GetLogs(runningPod.Name, Follow).Stream(ctx)
MonGetLogs(p) ==
  /\ proc = "running"
  /\ mpc[p] = "GetLogs"
  /\ \E err \in ApiErrs :
       IF err
         THEN /\ MonFail(p, "getting log stream")
              /\ UNCHANGED streamPod
         ELSE /\ streamPod' = Upd(streamPod, p, runningPod[p])
              /\ mpc' = Upd(mpc, p, "CreateLog")
              /\ UNCHANGED <<procVars, wpc, monActive>>
  /\ UNCHANGED <<cfgVars, monOk, since, activeJob, lastPoll, budget, jobName, runningPod,
                 logPod, final, res, monStarts, listed, picked, polledPod, lap, statusWrites,
                 lastRecord, ctxVars>>

\* the wrapper of os.Create's error: "creating logg file: %w" in main.go,
\* "opening file: %w" in part_000
CreateLogErr == IF prog = "part_000" THEN "opening file" ELSE "creating logg file"

\* os.Create(runningPod.Name + ".logs")
MonCreateLog(p) ==
  /\ proc = "running"
  /\ mpc[p] = "CreateLog"
  /\ \E err \in IoErrs :
       IF err
         THEN /\ MonFail(p, CreateLogErr)
              /\ UNCHANGED logPod
         ELSE /\ logPod' = Upd(logPod, p, runningPod[p])
              /\ mpc' = Upd(mpc, p, "Copy")
              /\ UNCHANGED <<procVars, wpc, monActive>>
  /\ UNCHANGED <<cfgVars, monOk, since, activeJob, lastPoll, budget, jobName, runningPod,
                 streamPod, final, res, monStarts, listed, picked, polledPod, lap, statusWrites,
                 lastRecord, ctxVars>>

\* io.Copy(logFile, stream): returns when the stream ends or a read or a
\* write fails.
MonCopy(p) ==
  /\ proc = "running"
  /\ mpc[p] = "Copy"
  /\ \E err \in BOOLEAN :
       IF err
         THEN MonFail(p, "streaming logs")
         ELSE /\ mpc' = Upd(mpc, p, "PodFinishing")
              /\ UNCHANGED <<procVars, wpc, monActive>>
  /\ UNCHANGED <<cfgVars, monOk, since, activeJob, lastPoll, budget, jobName, runningPod,
                 streamPod, logPod, final, res, monStarts, listed, picked, polledPod, lap,
                 statusWrites, lastRecord, ctxVars>>

\* another pod of the job fetched, whichever pod was picked
PollName_FirstOfJob(p) == <<jobName[p][1], jobName[p][2], 1>>

\* pods.Get(ctx, runningPod.Name, ...): the name the pod is fetched by
PollName(p) == runningPod[p]

\* the test of the phase dropped: the loop goes round whatever the phase
StillRunning_Always(phase) == TRUE

\* if final.Status.Phase == coreapi.PodRunning { continue PodFinishing }
StillRunning(phase) == phase = "Running"

\* main.go: one iteration of PodFinishing: pods.Get, and round again while the
\* phase is Running; else sleep 50ms and leave the loop.
MonPodFinishing(p) ==
  /\ proc = "running"
  /\ prog = "main.go"
  /\ mpc[p] = "PodFinishing"
  /\ polledPod' = Upd(polledPod, p, PollName(p))
  /\ lateCall' = Upd(lateCall, p, lateCall[p] \/ (cancelled /\ final[p] = "Running"))
  /\ \E err \in ApiErrs :
       IF err
         THEN /\ MonFail(p, "getting pod")
              /\ UNCHANGED <<final, lap>>
         ELSE \E phase \in Phases :
                /\ final' = Upd(final, p, phase)
                /\ mpc' = Upd(mpc, p, IF StillRunning(phase) THEN "PodFinishing"
                                                             ELSE "CreateStatus")
                /\ lap' = Upd(lap, p, IF StillRunning(phase) THEN 1 - lap[p] ELSE 0)
                /\ UNCHANGED <<procVars, wpc, monActive>>
  /\ UNCHANGED <<cfgVars, monOk, since, activeJob, lastPoll, budget, jobName, runningPod,
                 streamPod, logPod, res, monStarts, listed, picked, statusWrites,
                 lastRecord, doneSeen, unresolved>>

\* main.go: os.Create(runningPod.Name + ".json")
MonCreateStatus(p) ==
  /\ proc = "running"
  /\ mpc[p] = "CreateStatus"
  /\ \E err \in IoErrs :
       IF err
         THEN MonFail(p, "creating pod status file")
         ELSE /\ mpc' = Upd(mpc, p, "Encode")
              /\ UNCHANGED <<procVars, wpc, monActive>>
  /\ UNCHANGED <<cfgVars, monOk, since, activeJob, lastPoll, budget, jobName, runningPod,
                 streamPod, logPod, final, res, monStarts, listed, picked, polledPod, lap,
                 statusWrites, lastRecord, ctxVars>>

\* the record json.NewEncoder(statusFile).Encode(final) writes: final is the
\* pod the latest pods.Get returned
EncodedRecord(p) == [name |-> polledPod[p], phase |-> final[p]]

\* main.go: Encode(final) and return nil; watch goes on to its sleep.
MonEncode(p) ==
  /\ proc = "running"
  /\ mpc[p] = "Encode"
  /\ \E err \in IoErrs :
       IF err
         THEN /\ MonFail(p, "writing pod status file")
              /\ UNCHANGED <<statusWrites, lastRecord, monOk>>
         ELSE /\ statusWrites' = [statusWrites EXCEPT ![p][jobName[p]] = @ + 1]
              /\ lastRecord' = Upd(lastRecord, p, EncodedRecord(p))
              /\ monOk' = [monOk EXCEPT ![p][jobName[p]] = @ + 1]
              /\ mpc' = Upd(mpc, p, "idle")
              /\ monActive' = Upd(monActive, p, monActive[p] - 1)
              /\ wpc' = Upd(wpc, p, "Sleep5s")
              /\ UNCHANGED procVars
  /\ UNCHANGED <<cfgVars, since, activeJob, lastPoll, budget, jobName, runningPod,
                 streamPod, logPod, final, res, monStarts, listed, picked, polledPod, lap, ctxVars>>

\* ------------------------------------------------------------- part_000
\* os.OpenFile(cronJobName+"_pod_statuses", O_RDWR|O_CREATE|O_APPEND)
OpenStatusFile(p) ==
  /\ proc = "running"
  /\ wpc[p] = "OpenFile"
  /\ \E err \in IoErrs :
       IF err
         THEN Panic(p, "open status file")
         ELSE /\ wpc' = Upd(wpc, p, "GetJobsLoop")
              /\ UNCHANGED procVars
  /\ UNCHANGED <<cfgVars, activeJob, lastPoll, budget, monVars, histVars, ctxVars>>

\* part_000: one pods.Get after the copy, and
\* return podStatus{name: pod.Name, phase: final.Status.Phase}
MonPodGet(p) ==
  /\ proc = "running"
  /\ prog = "part_000"
  /\ mpc[p] = "PodFinishing"
  /\ polledPod' = Upd(polledPod, p, PollName(p))
  /\ \E err \in ApiErrs :
       IF err
         THEN /\ MonFail(p, "getting pod")
              /\ UNCHANGED <<final, res, monOk>>
         ELSE \E phase \in Phases :
                /\ final' = Upd(final, p, phase)
                /\ res' = Upd(res, p, [name |-> runningPod[p], phase |-> phase])
                /\ monOk' = [monOk EXCEPT ![p][jobName[p]] = @ + 1]
                /\ mpc' = Upd(mpc, p, "idle")
                /\ monActive' = Upd(monActive, p, monActive[p] - 1)
                /\ wpc' = Upd(wpc, p, "WriteStatus")
                /\ UNCHANGED procVars
  /\ UNCHANGED <<cfgVars, since, activeJob, lastPoll, budget, jobName, runningPod,
                 streamPod, logPod, monStarts, listed, picked, statusWrites,
                 lastRecord, lap, ctxVars>>

\* part_000: fmt.Fprintf(f, "%s=%s\n", res.name, res.phase), its error dropped
WriteStatus(p) ==
  /\ proc = "running"
  /\ wpc[p] = "WriteStatus"
  /\ \E err \in IoErrs :
       IF err
         THEN UNCHANGED <<statusWrites, lastRecord>>
         ELSE /\ statusWrites' = [statusWrites EXCEPT ![p][activeJob[p]] = @ + 1]
              /\ lastRecord' = Upd(lastRecord, p, res[p])
  /\ wpc' = Upd(wpc, p, "Sleep5s")
  /\ UNCHANGED <<cfgVars, monOk, since, procVars, activeJob, lastPoll, budget, monVars,
                 monActive, monStarts, listed, picked, polledPod, lap, ctxVars>>

\* ------------------------------------------------------------- supervisor
\* main.go: grp.Wait() returns once every function passed to grp.Go has
\* returned, cancels ctx and yields the first non-nil error a function
\* returned.  watch has no return statement, so this happens only when no -j
\* flag was given; main then returns.
Wait ==
  /\ proc = "running"
  /\ prog = "main.go"
  /\ \A p \in Pipelines : wpc[p] = "returned"
  /\ cancelled' = TRUE
  /\ waitErr' = NoErr
  /\ proc' = "exited"
  /\ UNCHANGED <<cfgVars, panicErr, trackVars, monVars, histVars, ctxVars>>

\* The monitor call of p is in progress and has not yet fetched its pod in a
\* phase other than Running.
Unresolved(p) ==
  /\ mpc[p] \in {"GetJob", "ListPods", "GetLogs", "CreateLog", "Copy", "PodFinishing"}

\* A caller of watch or monitor cancels the context it passed.
CtxCancel ==
  /\ proc = "running"
  /\ ~cancelled
  /\ cancelled' = TRUE
  /\ unresolved' = [p \in Pipelines |-> Unresolved(p)]
  /\ UNCHANGED <<cfgVars, proc, panicErr, waitErr, trackVars, monVars,
                 histVars, doneSeen, lateCall>>

\* ------------------------------------------------------------- behaviours
Next ==
  \/ Wait
  \/ \E p \in Pipelines : WatchPoll(p)
  \/ \E p \in Pipelines : WatchSleep(p)
  \/ \E p \in Pipelines : MonGetJob(p)
  \/ \E p \in Pipelines : MonListPods(p)
  \/ \E p \in Pipelines : MonGetLogs(p)
  \/ \E p \in Pipelines : MonCreateLog(p)
  \/ \E p \in Pipelines : MonCopy(p)
  \/ \E p \in Pipelines : MonPodFinishing(p)
  \/ \E p \in Pipelines : MonCreateStatus(p)
  \/ \E p \in Pipelines : MonEncode(p)
  \/ \E p \in Pipelines : OpenStatusFile(p)
  \/ \E p \in Pipelines : MonPodGet(p)
  \/ \E p \in Pipelines : WriteStatus(p)

\* The two programs as they run: nothing cancels ctx while a pipeline runs.
Spec == Init /\ [][Next]_vars

\* One pipeline alone: part_000, or main.go given at most one -j flag.
InitOne == Init /\ Len(jobNames) <= 1

SpecOne == InitOne /\ [][Next]_vars

NextCtx == Next \/ CtxCancel

\* watch and monitor as functions of the context they are given: the caller
\* may cancel it at any moment.
SpecCtx == Init /\ [][NextCtx]_vars

\* Fair scheduling: a goroutine that can take its next step takes it, every
\* call it makes returns, and a log stream that is being copied ends.
Fairness ==
  \A p \in 1..MaxJobs :
    /\ WF_vars(p \in Pipelines /\ WatchPoll(p))
    /\ WF_vars(p \in Pipelines /\ WatchSleep(p))
    /\ WF_vars(p \in Pipelines /\ MonGetJob(p))
    /\ WF_vars(p \in Pipelines /\ MonListPods(p))
    /\ WF_vars(p \in Pipelines /\ MonGetLogs(p))
    /\ WF_vars(p \in Pipelines /\ MonCreateLog(p))
    /\ WF_vars(p \in Pipelines /\ MonCopy(p))
    /\ WF_vars(p \in Pipelines /\ MonPodFinishing(p))
    /\ WF_vars(p \in Pipelines /\ MonCreateStatus(p))
    /\ WF_vars(p \in Pipelines /\ MonEncode(p))
    /\ WF_vars(p \in Pipelines /\ OpenStatusFile(p))
    /\ WF_vars(p \in Pipelines /\ MonPodGet(p))
    /\ WF_vars(p \in Pipelines /\ WriteStatus(p))

\* One pipeline under fair scheduling.
SpecLive == InitOne /\ [][Next]_vars /\ Fairness

\* ------------------------------------------------------------- properties
\* A step of pipeline p that is one iteration of GetJobsLoop.
PollStep(p) == wpc[p] = "GetJobsLoop" /\ wpc'[p] # "GetJobsLoop"

\* A poll step whose fetch of the cron job succeeded: lastPoll' is its result.
Fetched(p) ==
  /\ PollStep(p)
  /\ ~(wpc'[p] = "panicked" /\ panicErr' = "get cronjob")

C2_OneTransitionPerChange ==
  [][\A p \in Pipelines :
       (Fetched(p) /\ Len(lastPoll'[p]) = 1) =>
         IF lastPoll'[p][1] # activeJob[p]
           THEN /\ activeJob'[p] = lastPoll'[p][1]
                /\ monStarts'[p] =
                     [monStarts[p] EXCEPT ![lastPoll'[p][1]] = @ + 1]
                /\ jobName'[p] = lastPoll'[p][1]
                /\ mpc[p] = "idle"
                /\ mpc'[p] = "GetJob"
           ELSE /\ activeJob'[p] = activeJob[p]
                /\ monStarts'[p] = monStarts[p]]_vars

\* job a was monitored, then job b, once each, and b was polled again since
C2_Witness ==
  \E p \in Pipelines : \E a, b \in ExecsOf(jobNames[p]) :
    /\ a # b
    /\ activeJob[p] = b
    /\ monStarts[p][a] = 1
    /\ monStarts[p][b] = 1
    /\ monOk[p][b] = 1
    /\ since[p] = "same"

\* C3: a poll that reports exactly one active job, the last-seen one, starts
\* no monitor and leaves last-seen as it is; watch goes to its sleep.
C3_Idempotence ==
  [][\A p \in Pipelines :
       (Fetched(p) /\ lastPoll'[p] = <<activeJob[p]>>) =>
         /\ activeJob'[p] = activeJob[p]
         /\ monStarts'[p] = monStarts[p]
         /\ monActive'[p] = monActive[p]
         /\ mpc'[p] = mpc[p]
         /\ wpc'[p] = "Sleep5s"]_vars

\* the latest poll reported the last-seen job again
C3_Witness ==
  \E p \in Pipelines :
    /\ activeJob[p] # NoJob
    /\ lastPoll[p] = <<activeJob[p]>>
    /\ since[p] = "same"
    /\ wpc[p] = "Sleep5s"
    /\ monActive[p] = 0

\* C4: a poll that reports two or more active jobs ends the pipeline with the
\* error "expected only 1 active cron job", starts no monitor, and no step of
\* the program follows it.
C4_TooManyActive ==
  /\ [](\A p \in Pipelines :
          Len(lastPoll[p]) >= 2 =>
            /\ wpc[p] = "panicked"
            /\ proc = "crashed"
            /\ panicErr = "expected only 1 active cron job"
            /\ mpc[p] = "idle")
  /\ [][/\ \A p \in Pipelines :
             (Fetched(p) /\ Len(lastPoll'[p]) >= 2) =>
               /\ monStarts'[p] = monStarts[p]
               /\ monActive'[p] = 0
               /\ activeJob'[p] = activeJob[p]
        /\ (\E p \in Pipelines : Len(lastPoll[p]) >= 2) => UNCHANGED vars]_vars

\* a pipeline that had monitored a job met two active jobs
C4_Witness ==
  \E p \in Pipelines :
    /\ Len(lastPoll[p]) >= 2
    /\ activeJob[p] # NoJob
    /\ wpc[p] = "panicked"

\* C5: a monitor call opens the log stream and creates the log file only
\* after a listing of that call held a Running pod; while its listings hold
\* none, it has opened no stream and created no file and is still listing.
C5_StreamOnlyAfterRunning ==
  \A p \in Pipelines :
    /\ (runningPod[p] # NoPod \/ streamPod[p] # NoPod \/ logPod[p] # NoPod)
         => listed[p] \in {"first", "later"}
    /\ listed[p] \in {"unlisted", "none"}
         => mpc[p] \in {"idle", "GetJob", "ListPods"}

\* listings without a Running pod, then one with: stream and file are open
C5_Witness ==
  \E p \in Pipelines :
    /\ listed[p] = "later"
    /\ streamPod[p] # NoPod
    /\ logPod[p] = streamPod[p]

\* C6: every status record a monitor emits holds a phase other than Running,
\* the one of its latest fetch of the pod; the monitor leaves the fetch loop
\* only with such a phase.
C6_RecordNeverRunning ==
  \A p \in Pipelines :
    /\ lastRecord[p] # NoRecord =>
         (lastRecord[p].phase # "Running" /\ lastRecord[p].phase = final[p])
    /\ res[p] # NoRecord => res[p].phase # "Running"
    /\ mpc[p] \in {"CreateStatus", "Encode"} => final[p] \notin {"Running", NoPhase}

\* C7: a polling loop that has seen the cancellation at an iteration boundary
\* has exited.
C7_CancelExitsLoops ==
  \A p \in Pipelines : doneSeen[p] => mpc[p] = "idle"

\* C8: no API call is issued in a loop iteration begun after the
\* cancellation, and no status record is written for a monitor call that was
\* short of its result when the cancellation fired.
C8_NoCallsAfterCancel ==
  \A p \in Pipelines :
    /\ ~lateCall[p]
    /\ unresolved[p] => lastRecord[p] = NoRecord

\* C9: a pipeline that met a fatal error has returned it to the supervisor:
\* the shared context is cancelled and grp.Wait yields that error.
C9_FirstErrorPropagates ==
  \A p \in Pipelines :
    wpc[p] = "panicked" => (cancelled /\ waitErr = panicErr)

\* C10: per job, a status record is written at most once, never without a
\* monitor call that returned no error, and once such a call has returned
\* (and its caller has had its turn to write) at least once.
C10_RecordExactlyOnce ==
  \A p \in Pipelines : \A e \in ExecsOf(jobNames[p]) :
    /\ statusWrites[p][e] <= 1
    /\ statusWrites[p][e] <= monOk[p][e]
    /\ (monOk[p][e] >= 1 /\ wpc[p] # "WriteStatus") => statusWrites[p][e] >= 1

\* Pipeline p holds <pod>.logs open for writing: it created the file and its
\* io.Copy into it is under way.
WritesLog(p, pod) == mpc[p] = "Copy" /\ logPod[p] = pod

\* Pipeline p holds <pod>.json open for writing: it created the file and is
\* about to encode the pod into it.
WritesStatus(p, pod) == mpc[p] = "Encode" /\ runningPod[p] = pod

\* C11: no two pipelines hold the same log file, or the same status file,
\* open for writing at the same moment, whatever the -j flags are (the same
\* name may be given twice).
C11_NoSharedFile ==
  \A p, q \in Pipelines :
    p # q =>
      \A pod \in UNION {PodsOf(e) : e \in AllExecs} :
        /\ ~(WritesLog(p, pod) /\ WritesLog(q, pod))
        /\ ~(WritesStatus(p, pod) /\ WritesStatus(q, pod))

\* The error monitor returns when the operation at pc fails.
ErrOf(pc) ==
  CASE pc = "GetJob" -> "getting job"
    [] pc = "ListPods" -> "listing pods"
    [] pc = "GetLogs" -> "getting log stream"
    [] pc = "CreateLog" -> CreateLogErr
    [] pc = "Copy" -> "streaming logs"
    [] pc = "PodFinishing" -> "getting pod"
    [] pc = "CreateStatus" -> "creating pod status file"
    [] pc = "Encode" -> "writing pod status file"
    [] OTHER -> NoErr

\* A step in which the monitor call of p ends.
MonEnds(p) == mpc[p] # "idle" /\ mpc'[p] = "idle"

\* C12: a monitor call ends either with its result, after its last
\* operation, or with the error of the operation it stood at, which is its
\* first failure: the operation is not tried again, the call takes no later
\* step (the caller panics and the program takes no step at all), and no
\* status record is written by that call.
C12_FailsAtFirstError ==
  /\ [][\A p \in Pipelines :
          MonEnds(p) =>
            IF monOk'[p] # monOk[p]
              THEN mpc[p] = (IF prog = "main.go" THEN "Encode" ELSE "PodFinishing")
              ELSE /\ wpc'[p] = "panicked"
                   /\ proc' = "crashed"
                   /\ panicErr' = ErrOf(mpc[p])
                   /\ statusWrites' = statusWrites
                   /\ lastRecord[p] = NoRecord
                   /\ lastRecord'[p] = NoRecord
                   /\ res'[p] = NoRecord
                   /\ monStarts' = monStarts]_vars
  /\ [][proc = "crashed" => UNCHANGED vars]_vars
  /\ [](\A p \in Pipelines :
          (mpc[p] # "idle" /\ proc = "running") => wpc[p] = "InMonitor")

\* the copy of a monitor call failed: the call ended there, with that error,
\* its log file created and no record written
C12_Witness ==
  \E p \in Pipelines :
    /\ wpc[p] = "panicked"
    /\ panicErr = "streaming logs"
    /\ mpc[p] = "idle"
    /\ logPod[p] # NoPod
    /\ final[p] = NoPhase
    /\ statusWrites[p][jobName[p]] = 0

\* The stretches of monitor's body, in the order of the text: 0 fetching the
\* job, 1 the listing loop (awaiting a Running pod), 2 stream, log file and
\* copy (tailing), 3 fetching the pod after the copy (awaiting its terminal
\* phase), 4 status file and record (resolved).
Stage(pc) ==
  CASE pc = "GetJob" -> 0
    [] pc = "ListPods" -> 1
    [] pc \in {"GetLogs", "CreateLog", "Copy"} -> 2
    [] pc = "PodFinishing" -> 3
    [] pc \in {"CreateStatus", "Encode"} -> 4
    [] OTHER -> -1

\* A step in which the monitor call of p returns without an error.
MonReturns(p) == MonEnds(p) /\ wpc'[p] # "panicked"

\* A step in which p writes a status record.
WritesRecord(p) == statusWrites'[p] # statusWrites[p]

\* C13: a monitor call passes through its stages in order, none skipped and
\* none entered again; it fetches the pod for its terminal phase only once the
\* copy has ended; it writes the record, and returns without an error, only
\* after a fetch of the pod has reported a phase other than Running.
C13_StagesInOrder ==
  [][\A p \in Pipelines :
       /\ (mpc[p] # "idle" /\ mpc'[p] # "idle") =>
            Stage(mpc'[p]) \in {Stage(mpc[p]), Stage(mpc[p]) + 1}
       /\ (mpc[p] = "idle" /\ mpc'[p] # "idle") => Stage(mpc'[p]) = 0
       /\ (Stage(mpc'[p]) = 3 /\ Stage(mpc[p]) # 3) => mpc[p] = "Copy"
       /\ WritesRecord(p) => final[p] \notin {"Running", NoPhase}
       /\ MonReturns(p) => final'[p] \notin {"Running", NoPhase}]_vars

\* C14: a poll that reports no active job starts no monitor and leaves
\* last-seen as it is; so when the last-seen job is reported again after a
\* poll that reported none, no monitor is started for it a second time.
C14_EmptyPollKeepsLastSeen ==
  [][\A p \in Pipelines :
       /\ (Fetched(p) /\ lastPoll'[p] = <<>>) =>
            /\ activeJob'[p] = activeJob[p]
            /\ monStarts'[p] = monStarts[p]
            /\ mpc[p] = "idle"
            /\ mpc'[p] = "idle"
            /\ wpc'[p] = "Sleep5s"
       /\ (Fetched(p) /\ since[p] \in {"empty", "back"} /\ activeJob[p] # NoJob
             /\ lastPoll'[p] = <<activeJob[p]>>) =>
            /\ since'[p] = "back"
            /\ activeJob'[p] = activeJob[p]
            /\ monStarts'[p] = monStarts[p]
            /\ mpc'[p] = "idle"
            /\ wpc'[p] = "Sleep5s"]_vars

\* a job was monitored once, a poll then reported no active job, and the
\* latest poll reported the job again
C14_Witness ==
  \E p \in Pipelines :
    /\ activeJob[p] # NoJob
    /\ since[p] = "back"
    /\ lastPoll[p] = <<activeJob[p]>>
    /\ monStarts[p][activeJob[p]] = 1
    /\ monOk[p][activeJob[p]] = 1
    /\ mpc[p] = "idle"

\* C15: of a listing the monitor picks the lowest-index pod whose phase is
\* Running, and none when no pod of the listing is Running; the stream it
\* opens, the log file it creates and the record it writes bear that pod's
\* name, never the name of another pod of the listing.
C15_LowestRunningOnly ==
  \A p \in Pipelines :
    /\ listed[p] \in {"first", "later"} =>
         (picked[p].lowest # NoPod /\ runningPod[p] = picked[p].lowest)
    /\ listed[p] \in {"unlisted", "none"} =>
         (picked[p] = NoPick /\ runningPod[p] = NoPod)
    /\ \A used \in {streamPod[p], logPod[p], res[p].name, lastRecord[p].name} :
         /\ used \in {NoPod, picked[p].lowest}
         /\ used \notin picked[p].siblings

\* the listing held a second pod beside the one picked; stream, log file and
\* record bear the name of the one picked
C15_Witness ==
  \E p \in Pipelines :
    /\ picked[p].siblings # {}
    /\ streamPod[p] = picked[p].lowest
    /\ logPod[p] = picked[p].lowest
    /\ lastRecord[p].name = picked[p].lowest

\* What pipeline p holds of its own: the position and the local variables of
\* its watch and of the monitor call watch makes.
Own(p) ==
  <<wpc[p], mpc[p], activeJob[p], lastPoll[p], jobName[p], runningPod[p],
    streamPod[p], logPod[p], final[p], res[p]>>

\* A step of pipeline p.
StepOf(p) == Own(p)' # Own(p)

\* A step in which p creates (and so truncates) the log file of pod.
CreatesLog(p, pod) == mpc[p] = "CreateLog" /\ logPod'[p] = pod

\* C16: last-seen belongs to one pipeline; a step of one pipeline changes
\* neither last-seen nor the monitor's position and variables of another, does
\* not stop a monitor call another has in progress, and does not touch a file
\* another is writing: pipelines share nothing but the cancellation signal.
C16_PipelineIsolation ==
  [][\A p, q \in Pipelines :
       (p # q /\ StepOf(p)) =>
         /\ Own(q)' = Own(q)
         /\ mpc[q] # "idle" => proc' = "running"
         /\ \A pod \in UNION {PodsOf(e) : e \in AllExecs} :
              WritesLog(q, pod) => ~CreatesLog(p, pod)]_vars

\* C17: for as long as no listing of a monitor call has held a Running pod
\* (its pods are Pending, or have passed from Pending to Succeeded or Failed
\* between two listings), the call stays in its listing loop: it has opened no
\* stream and no log file, has written no record and has not returned, and
\* the tracker stands in the call and polls the cron job no further.  The call
\* leaves the loop other than with a Running pod only when an API call fails.
C17_NoRunningPodNoProgress ==
  /\ [](\A p \in Pipelines :
          (monActive[p] = 1 /\ listed[p] \in {"unlisted", "none"}) =>
            /\ mpc[p] \in {"GetJob", "ListPods"}
            /\ wpc[p] = "InMonitor"
            /\ runningPod[p] = NoPod
            /\ streamPod[p] = NoPod
            /\ logPod[p] = NoPod
            /\ lastRecord[p] = NoRecord
            /\ res[p] = NoRecord)
  /\ [][\A p \in Pipelines :
          /\ (mpc[p] = "ListPods" /\ listed'[p] = "none") =>
               \/ mpc'[p] = "ListPods" /\ wpc'[p] = "InMonitor"
               \/ wpc'[p] = "panicked" /\ panicErr' = "listing pods"
          /\ (MonReturns(p) \/ WritesRecord(p) \/ PollStep(p)) =>
               listed[p] \in {"first", "later"} \/ monActive[p] = 0]_vars

\* a listing of the monitor call held no Running pod: the call is still
\* listing, and the tracker stands in the call
C17_Witness ==
  \E p \in Pipelines :
    /\ listed[p] = "none"
    /\ mpc[p] = "ListPods"
    /\ wpc[p] = "InMonitor"
    /\ monStarts[p][jobName[p]] = 1
    /\ statusWrites[p][jobName[p]] = 0

\* C18: within one monitor call the log file, the fetches of the pod after
\* the copy and the status record all bear one name, that of the pod picked
\* from the first listing that held a Running pod; once a pod is picked the
\* call lists no more, and the name stays as it is to the end of the call.
C18_OneNamePerCall ==
  /\ [](\A p \in Pipelines :
          \A used \in {logPod[p], polledPod[p], res[p].name, lastRecord[p].name} :
            used # NoPod =>
              /\ used = picked[p].lowest
              /\ used = runningPod[p]
              /\ listed[p] \in {"first", "later"})
  /\ [][\A p \in Pipelines :
          /\ picked'[p] # picked[p] =>
               \/ mpc[p] = "ListPods" /\ listed[p] \in {"unlisted", "none"}
               \/ picked'[p] = NoPick
          /\ (runningPod[p] # NoPod /\ runningPod'[p] # runningPod[p]) =>
               (mpc'[p] \in {"idle", "GetJob"} /\ runningPod'[p] = NoPod)]_vars

\* a call that picked its pod after a listing without a Running pod, from a
\* listing of two pods, has fetched the pod and written the record under the
\* name of its log file
C18_Witness ==
  \E p \in Pipelines :
    /\ listed[p] = "later"
    /\ picked[p].siblings # {}
    /\ logPod[p] = picked[p].lowest
    /\ polledPod[p] = logPod[p]
    /\ lastRecord[p].name = logPod[p]
    /\ lastRecord[p].phase \in {"Succeeded", "Failed"}

\* part_000: the write of the record failed and the error was dropped.
Dropped(p) ==
  /\ prog = "part_000"
  /\ wpc[p] = "Sleep5s"
  /\ res[p] # NoRecord
  /\ lastRecord[p] = NoRecord

\* No API call and no file operation fails.
NoFailure == proc # "crashed" /\ \A p \in Pipelines : ~Dropped(p)

\* From some moment on no fetch of the pod reports the phase Running.
LeavesRunning == \A p \in Pipelines : final[p] # "Running"

\* A listing has just given the monitor call of p its Running pod.
PickedPod(p) == p \in Pipelines /\ mpc[p] = "GetLogs"

\* The monitor call of p has written its record and returned.
Resolved(p) ==
  /\ p \in Pipelines
  /\ mpc[p] = "idle"
  /\ wpc[p] = "Sleep5s"
  /\ lastRecord[p] # NoRecord
  /\ lastRecord[p].name = runningPod[p]

\* The tracker of p has polled the cron job since the record was written.
PolledAgain(p) ==
  /\ p \in Pipelines
  /\ wpc[p] \in {"Sleep5s", "InMonitor", "panicked"}
  /\ lastRecord[p] = NoRecord

\* C19: under fair scheduling, when no call fails, nothing cancels the
\* context, the stream that is copied ends and the fetches of the pod cease to
\* report Running, a monitor call whose listing held a Running pod goes on to
\* write its record and return, and the tracker then polls the cron job again.
C19_MonitorCompletes ==
  ([]NoFailure /\ <>[]LeavesRunning) =>
    \A p \in 1..MaxJobs :
      /\ PickedPod(p) ~> Resolved(p)
      /\ Resolved(p) ~> PolledAgain(p)

\* the monitor call has written the record of a pod whose fetch had reported
\* Running before it reported Succeeded, and has returned
C19_Witness ==
  \E p \in Pipelines :
    /\ Resolved(p)
    /\ prog = "main.go"
    /\ lastRecord[p].phase = "Succeeded"
    /\ listed[p] = "later"

====
